---- MODULE Spec2Model ----
(***************************************************************************)
(* Storage CRC64: compute (table-driven update with a caller-supplied      *)
(* running state) and concat (algebraic merge of two partial CRCs), as in  *)
(* azure/storage/extensions/crc64/crc64module.c.                           *)
(*                                                                         *)
(* A uint64_t is a tuple of 8 bytes, least significant byte first (the     *)
(* little-endian layout the code relies on at crc64module.c:41-46).  A C   *)
(* int is a TLA+ integer in -2^31 .. 2^31-1.                               *)
(***************************************************************************)
EXTENDS Integers, Sequences, FiniteSets, TLC

VARIABLES
    pc,     \* the position of the caller in its sequence of calls
    args,   \* the arguments the caller holds
    ret,    \* the values the calls made so far returned
    thr     \* the locals of the calls in progress, one per thread

vars == << pc, args, ret, thr >>

(***************************************************************************)
(* 64-bit unsigned arithmetic on 8-byte tuples.                            *)
(***************************************************************************)
RECURSIVE XorBits(_, _, _)
XorBits(a, b, k) ==
    IF k = 0 THEN 0
    ELSE ((a + b) % 2) + 2 * XorBits(a \div 2, b \div 2, k - 1)

\* a ^ b on bytes, tabulated once: entry a * 256 + b + 1.
XorTab == [i \in 1..65536 |-> XorBits((i - 1) \div 256, (i - 1) % 256, 8)] \o <<>>

XorByte(a, b) == XorTab[a * 256 + b + 1]

\* a ^ b on uint64_t
Xor64(a, b) ==
    << XorByte(a[1], b[1]), XorByte(a[2], b[2]), XorByte(a[3], b[3]),
       XorByte(a[4], b[4]), XorByte(a[5], b[5]), XorByte(a[6], b[6]),
       XorByte(a[7], b[7]), XorByte(a[8], b[8]) >>

\* a >> 8 on uint64_t
Shr8(a) == << a[2], a[3], a[4], a[5], a[6], a[7], a[8], 0 >>

\* a >> 1 on uint64_t
Shr1(a) ==
    << (a[1] \div 2) + 128 * (a[2] % 2), (a[2] \div 2) + 128 * (a[3] % 2),
       (a[3] \div 2) + 128 * (a[4] % 2), (a[4] \div 2) + 128 * (a[5] % 2),
       (a[5] \div 2) + 128 * (a[6] % 2), (a[6] \div 2) + 128 * (a[7] % 2),
       (a[7] \div 2) + 128 * (a[8] % 2), a[8] \div 2 >>

\* (a) & (256 - 1) on uint64_t, as a table index
Low8(a) == a[1]

\* bit k (0 = least significant) of a uint64_t
Bit(a, k) == (a[(k \div 8) + 1] \div (2 ^ (k % 8))) % 2

Zero64 == << 0, 0, 0, 0, 0, 0, 0, 0 >>

\* the uint64_t of a natural number below 2^31
U64(n) ==
    << n % 256, (n \div 256) % 256, (n \div 65536) % 256, n \div 16777216,
       0, 0, 0, 0 >>

\* the natural number of a uint64_t below 2^31
Nat64(a) == a[1] + 256 * a[2] + 65536 * a[3] + 16777216 * a[4]

FitsInt(a) == a[4] < 128 /\ a[5] = 0 /\ a[6] = 0 /\ a[7] = 0 /\ a[8] = 0

RECURSIVE SubBytes(_, _, _, _)
SubBytes(a, b, i, borrow) ==
    IF i > 8 THEN << >>
    ELSE LET d == a[i] - b[i] - borrow
         IN  << d % 256 >> \o SubBytes(a, b, i + 1, IF d < 0 THEN 1 ELSE 0)

\* a - b on uint64_t (modulo 2^64)
Sub64(a, b) == SubBytes(a, b, 1, 0)

RECURSIVE LtBytes(_, _, _)
LtBytes(a, b, i) ==
    IF i = 0 THEN FALSE
    ELSE IF a[i] # b[i] THEN a[i] < b[i]
    ELSE LtBytes(a, b, i - 1)

\* a < b on uint64_t
Lt64(a, b) == LtBytes(a, b, 8)

RECURSIVE IncBytes(_, _)
IncBytes(a, i) ==
    IF i > 8 THEN << >>
    ELSE IF a[i] = 255 THEN << 0 >> \o IncBytes(a, i + 1)
    ELSE << a[i] + 1 >> \o SubSeq(a, i + 1, 8)

\* ++a on uint64_t
Inc64(a) == IncBytes(a, 1)

\* a % 32 on uint64_t
Mod32(a) == << a[1] % 32, 0, 0, 0, 0, 0, 0, 0 >>

\* (int)a for a uint64_t a: the low 32 bits read as two's complement
ToInt(a) ==
    a[1] + 256 * a[2] + 65536 * a[3]
      + 16777216 * (IF a[4] >= 128 THEN a[4] - 256 ELSE a[4])

(***************************************************************************)
(* helpers.h: the complement constant, the lookup tables and MulX_N.  The  *)
(* header is not among the sources; these follow the specification: the    *)
(* reflected CRC recurrence for the tables (section 4.1), all-ones for the *)
(* complement, and multiplication by X^(8n) modulo the generator           *)
(* polynomial by square-and-multiply over a ladder of X^(8 * 2^k)          *)
(* (section 4.3).                                                          *)
(***************************************************************************)
m_uComplement == << 255, 255, 255, 255, 255, 255, 255, 255 >>

\* The generator polynomial in reflected form, 0x9A6C9329AC4BC9B5.
Poly == << 181, 201, 75, 172, 41, 147, 108, 154 >>

\* a * X modulo Poly (reflected: the coefficient of X^63 is bit 0)
MulX(a) == IF a[1] % 2 = 1 THEN Xor64(Shr1(a), Poly) ELSE Shr1(a)

RECURSIVE MulXk(_, _)
MulXk(a, k) == IF k = 0 THEN a ELSE MulXk(MulX(a), k - 1)

\* single[256]: entry b + 1 is the reduction of byte b.
m_u1 == [i \in 1..256 |-> MulXk(U64(i - 1), 8)] \o << >>

\* One step of the reflected recurrence with no data byte: v * X^8.
Advance8(v) == Xor64(Shr8(v), m_u1[Low8(v) + 1])

\* Advance8 applied st[2] times to st[1].
RECURSIVE AdvanceFrom(_)
AdvanceFrom(st) ==
    IF st[2] = 0 THEN st[1]
    ELSE AdvanceFrom(<< Advance8(st[1]), st[2] - 1 >>)

AdvanceN(v, n) == AdvanceFrom(<< v, n >>)

\* wide[8][256], flat: entry k * 256 + b + 1 is byte b advanced 25 + k
\* bytes, T[k + 1][b] = (T[k][b] >> 8) ^ single[T[k][b] & 0xFF].
m_u32 ==
    [i \in 1..2048 |->
        AdvanceN(m_u1[((i - 1) % 256) + 1], 24 + ((i - 1) \div 256))] \o << >>

\* The field element 1 (X^0) in reflected form.
One64 == << 0, 0, 0, 0, 0, 0, 0, 128 >>

\* One round of the shift-and-add product: st = << b, r, i >>.
MulPolyStep(a, st) ==
    << MulX(st[1]),
       IF Bit(a, 63 - st[3]) = 1 THEN Xor64(st[2], st[1]) ELSE st[2],
       st[3] + 1 >>

\* n rounds from st, stopping after round 63 (the recursion halves n).
RECURSIVE MulPolyIter(_, _, _)
MulPolyIter(a, st, n) ==
    IF st[3] > 63 THEN st
    ELSE IF n = 1 THEN MulPolyStep(a, st)
    ELSE MulPolyIter(a, MulPolyIter(a, st, n \div 2), n - (n \div 2))

\* a * b modulo Poly
MulPoly(a, b) == MulPolyIter(a, << b, Zero64, 0 >>, 64)[2]

RECURSIVE LadderFrom(_)
LadderFrom(l) ==
    IF Len(l) = 64 THEN l
    ELSE LadderFrom(Append(l, MulPoly(l[Len(l)], l[Len(l)])))

\* The ladder: entry k + 1 is X^(8 * 2^k) modulo Poly.
m_uX2N == LadderFrom(<< MulXk(One64, 8) >>)

\* st = << a, k >>: a times X^(8 * 2^j) for every one bit j >= k of uSize.
RECURSIVE MulX_NFrom(_, _)
MulX_NFrom(st, uSize) ==
    IF st[2] > 63 THEN st[1]
    ELSE MulX_NFrom(<< IF Bit(uSize, st[2]) = 1
                         THEN MulPoly(st[1], m_uX2N[st[2] + 1])
                         ELSE st[1],
                       st[2] + 1 >>, uSize)

\* a * X^(8 * uSize) modulo Poly, uSize a uint64_t
MulX_N(a, uSize) == MulX_NFrom(<< a, 0 >>, uSize)

(***************************************************************************)
(* crc64module.c: compute.                                                 *)
(*                                                                         *)
(* A bytes argument is the pair (src, length) that "y#" hands over: src is *)
(* the tuple of its leading bytes and length its size as a uint64_t; the   *)
(* bytes of the object past the tuple, if any, are 0.  For every buffer    *)
(* shorter than 2^31 bytes the tuple is the whole object.                  *)
(***************************************************************************)
\* src[i]
ReadByte(src, i) == IF 0 <= i /\ i < Len(src) THEN src[i + 1] ELSE 0

\* *((uint64_t*)(src + i)), little endian
ReadWord(src, i) ==
    << ReadByte(src, i), ReadByte(src, i + 1), ReadByte(src, i + 2),
       ReadByte(src, i + 3), ReadByte(src, i + 4), ReadByte(src, i + 5),
       ReadByte(src, i + 6), ReadByte(src, i + 7) >>

\* uCrc ^ m_uComplement
Complement(uCrc) == Xor64(uCrc, m_uComplement)

\* The fast path taken from one whole block on: uStop >= 32.
FastPath_OneBlock(uStop) == ~Lt64(uStop, U64(32))

\* uStop >= 2 * 32
FastPath(uStop) == ~Lt64(uStop, U64(2 * 32))

\* The lookups of one lane from tap st[3] down to tap 0, b >>= 8 between:
\* st = << b, uCrcN, tap >>.
RECURSIVE LaneFrom(_)
LaneFrom(st) ==
    IF st[3] < 0 THEN st[2]
    ELSE LaneFrom(<< Shr8(st[1]),
                     Xor64(st[2], m_u32[st[3] * 256 + Low8(st[1]) + 1]),
                     st[3] - 1 >>)

\* LaneUpdate with the taps in ascending order: tap 0 for the low byte.
LaneUpdate_TapsAscending(b) ==
    LET t0 == m_u32[0 * 256 + b[1] + 1]
        t1 == Xor64(t0, m_u32[1 * 256 + b[2] + 1])
        t2 == Xor64(t1, m_u32[2 * 256 + b[3] + 1])
        t3 == Xor64(t2, m_u32[3 * 256 + b[4] + 1])
        t4 == Xor64(t3, m_u32[4 * 256 + b[5] + 1])
        t5 == Xor64(t4, m_u32[5 * 256 + b[6] + 1])
        t6 == Xor64(t5, m_u32[6 * 256 + b[7] + 1])
    IN  Xor64(t6, m_u32[7 * 256 + b[8] + 1])

\* One lane of the unrolled loop body (lines 48-107): uCrcN is assigned the
\* tap 7 entry of the low byte of b, then taps 6 to 0 are xored in.
LaneUpdate(b) ==
    LaneFrom(<< Shr8(b), m_u32[7 * 256 + Low8(b) + 1], 6 >>)

\* uCrc = (uCrc >> 8) ^ m_u1[(uCrc) & (256 - 1)]
TableStep(uCrc) == Xor64(Shr8(uCrc), m_u1[Low8(uCrc) + 1])

\* TableStep st[2] times: st = << uCrc, n >>.
RECURSIVE TableSteps(_)
TableSteps(st) ==
    IF st[2] = 0 THEN st[1]
    ELSE TableSteps(<< TableStep(st[1]), st[2] - 1 >>)

\* uCrc ^= w ^ uCrcN, then eight table steps (lines 111-119)
FoldWord(uCrc, w, uCrcN) ==
    TableSteps(<< Xor64(uCrc, Xor64(w, uCrcN)), 8 >>)

\* The fold of lanes st[2]..3 into uCrc: st = << uCrc, lane >>.
RECURSIVE FoldFrom(_, _)
FoldFrom(st, l) ==
    IF st[2] > 3 THEN st[1]
    ELSE FoldFrom(<< FoldWord(st[1], ReadWord(l.src, l.pData + 8 * st[2]),
                              l.uCrcN[st[2] + 1]),
                     st[2] + 1 >>, l)

\* uCrc = (uCrc >> 8) ^ m_u1[(uCrc ^ src[pData]) & (256 - 1)]
TailByte(uCrc, byte) == Xor64(Shr8(uCrc), m_u1[XorByte(Low8(uCrc), byte) + 1])

\* The locals of a call of compute once its arguments are parsed.
ComputeCall(src, length, uCrc) ==
    [ pc |-> "enter", src |-> src, length |-> length, uCrc |-> uCrc,
      pData |-> 0, uSize |-> Zero64, uBytes |-> Zero64, uStop |-> Zero64,
      pLast |-> 0, uCrcN |-> << Zero64, Zero64, Zero64, Zero64 >>,
      fast |-> FALSE, reads |-> << >>, result |-> Zero64 ]

\* Lines 18-35: the un-complement, uStop, and the set-up of the fast path.
ComputeEnter(l) ==
    LET uSize == l.length
        uCrc  == Complement(l.uCrc)
        uStop == Sub64(uSize, Mod32(uSize))
    IN  IF FastPath(uStop)
        THEN [ l EXCEPT !.pc = "loop", !.uCrc = uCrc, !.uStop = uStop,
                        !.pLast = 0 + ToInt(uStop) - 32,
                        !.uSize = Sub64(uSize, uStop),
                        !.uCrcN = << uCrc, Zero64, Zero64, Zero64 >>,
                        !.fast = TRUE ]
        ELSE [ l EXCEPT !.pc = "tail", !.uCrc = uCrc, !.uStop = uStop,
                        !.uSize = uSize ]

\* Lines 37-108: one iteration of the unrolled loop, or its exit.
ComputeLoop(l) ==
    IF l.pData < l.pLast
    THEN [ l EXCEPT
             !.uCrcN =
                 << LaneUpdate(Xor64(ReadWord(l.src, l.pData + 0), l.uCrcN[1])),
                    LaneUpdate(Xor64(ReadWord(l.src, l.pData + 8), l.uCrcN[2])),
                    LaneUpdate(Xor64(ReadWord(l.src, l.pData + 16), l.uCrcN[3])),
                    LaneUpdate(Xor64(ReadWord(l.src, l.pData + 24), l.uCrcN[4])) >>,
             !.reads = l.reads \o << << l.pData + 0, 8 >>, << l.pData + 8, 8 >>,
                                     << l.pData + 16, 8 >>, << l.pData + 24, 8 >> >>,
             !.pData = l.pData + 32 ]
    ELSE [ l EXCEPT !.pc = "fold" ]

\* ComputeFold without the pData += 32 of line 147.
ComputeFold_NoAdvance(l) ==
    [ l EXCEPT
        !.pc = "tail", !.uCrc = FoldFrom(<< Zero64, 0 >>, l),
        !.reads = l.reads \o << << l.pData + 0, 8 >>, << l.pData + 8, 8 >>,
                                << l.pData + 16, 8 >>, << l.pData + 24, 8 >> >> ]

\* Lines 110-147: the four lanes folded with the last 32-byte block.
ComputeFold(l) ==
    [ l EXCEPT
        !.pc = "tail", !.uCrc = FoldFrom(<< Zero64, 0 >>, l),
        !.reads = l.reads \o << << l.pData + 0, 8 >>, << l.pData + 8, 8 >>,
                                << l.pData + 16, 8 >>, << l.pData + 24, 8 >> >>,
        !.pData = l.pData + 32 ]

\* ComputeTail returning uCrc without the complement of line 155.
ComputeTail_NoComplement(l) ==
    IF Lt64(l.uBytes, l.uSize)
    THEN [ l EXCEPT !.uCrc = TailByte(l.uCrc, ReadByte(l.src, l.pData)),
                    !.reads = Append(l.reads, << l.pData, 1 >>),
                    !.uBytes = Inc64(l.uBytes),
                    !.pData = l.pData + 1 ]
    ELSE [ l EXCEPT !.pc = "done", !.result = l.uCrc ]

\* Lines 150-155: one iteration of the byte loop, or the return.
ComputeTail(l) ==
    IF Lt64(l.uBytes, l.uSize)
    THEN [ l EXCEPT !.uCrc = TailByte(l.uCrc, ReadByte(l.src, l.pData)),
                    !.reads = Append(l.reads, << l.pData, 1 >>),
                    !.uBytes = Inc64(l.uBytes),
                    !.pData = l.pData + 1 ]
    ELSE [ l EXCEPT !.pc = "done", !.result = Complement(l.uCrc) ]

\* The next step of a call of compute.
ComputeStep(l) ==
    CASE l.pc = "enter" -> ComputeEnter(l)
      [] l.pc = "loop"  -> ComputeLoop(l)
      [] l.pc = "fold"  -> ComputeFold(l)
      [] l.pc = "tail"  -> ComputeTail(l)
      [] OTHER          -> l

\* At most n steps from l, stopping at the return (the recursion halves n).
RECURSIVE ComputeRun(_, _)
ComputeRun(l, n) ==
    IF l.pc = "done" \/ n = 0 THEN l
    ELSE IF n = 1 THEN ComputeStep(l)
    ELSE ComputeRun(ComputeRun(l, n \div 2), n - (n \div 2))

\* compute(data, crc) for a bytes object shorter than 2^31 bytes.
compute(src, uCrc) ==
    ComputeRun(ComputeCall(src, U64(Len(src)), uCrc), Len(src) + 3).result

(***************************************************************************)
(* crc64module.c: concat.  "K" converts a Python integer to unsigned long  *)
(* long without overflow checking: the integer modulo 2^64.                *)
(***************************************************************************)
\* Not64(a) is 2^64 - 1 - a.
ParseK(n) == IF n >= 0 THEN U64(n) ELSE Xor64(U64(-n - 1), m_uComplement)

\* The locals of a call of concat once its arguments are parsed.
ConcatCall(uInitialCrcAB, uInitialCrcA, uFinalCrcA, uSizeA, uInitialCrcB, uFinalCrcB, uSizeB) ==
    [ pc |-> "c165", uInitialCrcAB |-> uInitialCrcAB,
      uInitialCrcA |-> uInitialCrcA, uFinalCrcA |-> uFinalCrcA,
      uSizeA |-> uSizeA, uInitialCrcB |-> uInitialCrcB,
      uFinalCrcB |-> uFinalCrcB, uSizeB |-> uSizeB,
      uFinalCrcAB |-> Zero64, result |-> Zero64 ]

\* The correction advanced by uSizeB instead of uSizeA.
ConcatCorrect_SizeB(l) ==
    IF l.uInitialCrcA # l.uInitialCrcAB
    THEN Xor64(l.uFinalCrcAB,
               MulX_N(Xor64(l.uInitialCrcA, l.uInitialCrcAB), l.uSizeB))
    ELSE l.uFinalCrcAB

\* Lines 167-170: the correction for a chunk A seeded with another state
\* than the combined stream's.
ConcatCorrect(l) ==
    IF l.uInitialCrcA # l.uInitialCrcAB
    THEN Xor64(l.uFinalCrcAB,
               MulX_N(Xor64(l.uInitialCrcA, l.uInitialCrcAB), l.uSizeA))
    ELSE l.uFinalCrcAB

\* Line 172 without the complement of uInitialCrcB.
ConcatSeedB_NoComplement(l) == Xor64(l.uFinalCrcAB, l.uInitialCrcB)

\* Line 172: uFinalCrcAB ^= uInitialCrcB ^ m_uComplement
ConcatSeedB(l) ==
    Xor64(l.uFinalCrcAB, Xor64(l.uInitialCrcB, m_uComplement))

\* Line 173 advancing by uSizeA instead of uSizeB.
ConcatAdvance_SizeA(l) == MulX_N(l.uFinalCrcAB, l.uSizeA)

\* Line 173: uFinalCrcAB = MulX_N(uFinalCrcAB, uSizeB)
ConcatAdvance(l) == MulX_N(l.uFinalCrcAB, l.uSizeB)

\* The next statement of a call of concat (lines 165-176).
ConcatStep(l) ==
    CASE l.pc = "c165" ->
           [ l EXCEPT !.pc = "c167",
                      !.uFinalCrcAB = Xor64(l.uFinalCrcA, m_uComplement) ]
      [] l.pc = "c167" ->
           [ l EXCEPT !.pc = "c172", !.uFinalCrcAB = ConcatCorrect(l) ]
      [] l.pc = "c172" ->
           [ l EXCEPT !.pc = "c173", !.uFinalCrcAB = ConcatSeedB(l) ]
      [] l.pc = "c173" ->
           [ l EXCEPT !.pc = "c174", !.uFinalCrcAB = ConcatAdvance(l) ]
      [] l.pc = "c174" ->
           [ l EXCEPT !.pc = "done",
                      !.result = Xor64(l.uFinalCrcAB, l.uFinalCrcB) ]
      [] OTHER -> l

\* concat on parsed arguments: its five statements in order.
concat(uInitialCrcAB, uInitialCrcA, uFinalCrcA, uSizeA, uInitialCrcB, uFinalCrcB, uSizeB) ==
    ConcatStep(ConcatStep(ConcatStep(ConcatStep(ConcatStep(
        ConcatCall(uInitialCrcAB, uInitialCrcA, uFinalCrcA, uSizeA,
                   uInitialCrcB, uFinalCrcB, uSizeB)))))).result

\* concat as Python calls it: the two sizes are Python integers.  The only
\* failure is PyArg_ParseTuple's (line 162), and "K" accepts every integer.
PyConcat(initialAB, initialA, finalA, sizeA, initialB, finalB, sizeB) ==
    [ status |-> "ok",
      value  |-> concat(initialAB, initialA, finalA, ParseK(sizeA),
                        initialB, finalB, ParseK(sizeB)) ]

\* The byte-at-a-time reference of the specification (section 4.2, step 3,
\* between the un-complement and the re-complement): st = << crc, i >>.
RECURSIVE ReferenceFrom(_, _)
ReferenceFrom(st, src) ==
    IF st[2] >= Len(src) THEN st[1]
    ELSE ReferenceFrom(
           << Xor64(Shr8(st[1]), m_u1[XorByte(Low8(st[1]), src[st[2] + 1]) + 1]),
              st[2] + 1 >>, src)

Reference(src, uCrc) ==
    Xor64(ReferenceFrom(<< Xor64(uCrc, m_uComplement), 0 >>, src), m_uComplement)

(***************************************************************************)
(* The inputs the calls are checked on.                                    *)
(***************************************************************************)
\* The longest buffer handed to compute.
MaxLen == 97

\* The lengths around every boundary of the 32-byte unrolled loop.
Lengths == { n \in 0..MaxLen : n % 32 \in {0, 1, 31} \/ n = MaxLen }

\* Byte i of the buffer with coefficients p: a polynomial in i modulo 256.
PatternByte(p, i) == (p[1] * i * i + p[2] * i + p[3]) % 256

Patterns == { << 0, 0, 0 >>, << 0, 7, 3 >>, << 5, 88, 251 >> }

\* The buffer of n bytes with coefficients p.
Buf(n, p) == [i \in 1..n |-> PatternByte(p, i - 1)] \o << >>

Buffers == { Buf(n, p) : n \in Lengths, p \in Patterns }

\* The initial CRC states.
Seeds ==
    { Zero64, m_uComplement, << 239, 205, 171, 137, 103, 69, 35, 1 >>,
      << 1, 0, 0, 0, 0, 0, 0, 128 >> }

\* The split points tried on a buffer of n bytes.
Splits(n) == { k \in 0..n : k % 8 \in {0, 1, 7} \/ k = n }

None == << >>

(***************************************************************************)
(* Spec: a caller checksums a buffer in one call, then in two calls        *)
(* threading the state through, then with the byte-at-a-time reference.    *)
(***************************************************************************)
Init ==
    /\ pc = "whole"
    /\ \E src \in Buffers, s \in Seeds :
         \E k \in Splits(Len(src)) :
           args = [ data |-> src, seed |-> s, k |-> k ]
    /\ ret = [ whole |-> None, first |-> None, second |-> None, ref |-> None ]
    /\ thr = << >>

\* compute(D, s)
CallWhole ==
    /\ pc = "whole"
    /\ ret' = [ ret EXCEPT !.whole = compute(args.data, args.seed) ]
    /\ pc' = "first"
    /\ UNCHANGED << args, thr >>

\* compute(D[:k], s)
CallFirst ==
    /\ pc = "first"
    /\ ret' = [ ret EXCEPT
                  !.first = compute(SubSeq(args.data, 1, args.k), args.seed) ]
    /\ pc' = "second"
    /\ UNCHANGED << args, thr >>

\* compute(D[k:], the state the first call returned)
CallSecond ==
    /\ pc = "second"
    /\ ret' = [ ret EXCEPT
                  !.second = compute(SubSeq(args.data, args.k + 1,
                                            Len(args.data)), ret.first) ]
    /\ pc' = "ref"
    /\ UNCHANGED << args, thr >>

\* the byte-at-a-time reference on D
CallReference ==
    /\ pc = "ref"
    /\ ret' = [ ret EXCEPT !.ref = Reference(args.data, args.seed) ]
    /\ pc' = "end"
    /\ UNCHANGED << args, thr >>

Next == CallWhole \/ CallFirst \/ CallSecond \/ CallReference

Spec == Init /\ [][Next]_vars

\* C1: streaming equivalence: compute over D[k:] seeded with compute over
\* D[:k] from s equals compute over D from s, for every split point k.
C1_StreamingEquivalence ==
    (ret.whole # None /\ ret.second # None) => ret.second = ret.whole

\* The whole buffer takes the unrolled fast path, both pieces only the byte
\* loop, and the split is not a multiple of 8.
C1_Witness ==
    /\ ret.second # None
    /\ Len(args.data) >= 64
    /\ args.k < 64 /\ Len(args.data) - args.k < 64
    /\ args.k % 8 # 0

\* C4: compute returns what the byte-at-a-time reference over single[]
\* returns, for every buffer and initial state.
C4_FastPathAgreesWithReference ==
    (ret.whole # None /\ ret.ref # None) => ret.whole = ret.ref

\* A buffer of 97 bytes: two unrolled iterations, the fold and a tail byte.
C4_Witness ==
    /\ ret.ref # None /\ ret.whole = ret.ref
    /\ Len(args.data) = 97 /\ args.seed # Zero64

\* C5: compute of the empty buffer returns its initial state.
C5_EmptyInputIdentity ==
    /\ (ret.whole # None /\ Len(args.data) = 0) => ret.whole = args.seed
    /\ (ret.first # None /\ args.k = 0) => ret.first = args.seed
    /\ (ret.second # None /\ args.k = Len(args.data)) => ret.second = ret.first

C5_Witness ==
    /\ ret.whole # None /\ Len(args.data) = 0
    /\ args.seed # Zero64 /\ args.seed # m_uComplement

(***************************************************************************)
(* SpecConcat: a caller checksums chunk A from initialA and chunk B from   *)
(* initialB independently, merges the two with concat for a stream that    *)
(* starts from initialAB, and checksums A || B sequentially to compare.    *)
(***************************************************************************)
\* The longest chunk handed to concat's callers.
MaxChunk == 70

ChunkLengths == { n \in 0..MaxChunk : n % 32 \in {0, 1} \/ n = MaxChunk }

ChunkSeeds ==
    { Zero64, m_uComplement, << 239, 205, 171, 137, 103, 69, 35, 1 >> }

InitConcat ==
    /\ pc = "crcA"
    /\ \E na \in ChunkLengths, nb \in ChunkLengths :
         \E sAB \in ChunkSeeds, sA \in ChunkSeeds, sB \in ChunkSeeds :
           args = [ A |-> Buf(na, << 0, 7, 3 >>), B |-> Buf(nb, << 5, 88, 251 >>),
                    initialAB |-> sAB, initialA |-> sA, initialB |-> sB ]
    /\ ret = [ crcA |-> None, crcB |-> None, joined |-> None,
               direct |-> None, chained |-> None ]
    /\ thr = << >>

\* compute(A, initialA)
CallCrcA ==
    /\ pc = "crcA"
    /\ ret' = [ ret EXCEPT !.crcA = compute(args.A, args.initialA) ]
    /\ pc' = "crcB"
    /\ UNCHANGED << args, thr >>

\* compute(B, initialB)
CallCrcB ==
    /\ pc = "crcB"
    /\ ret' = [ ret EXCEPT !.crcB = compute(args.B, args.initialB) ]
    /\ pc' = "join"
    /\ UNCHANGED << args, thr >>

\* concat(initialAB, initialA, crcA, len(A), initialB, crcB, len(B))
CallConcat ==
    /\ pc = "join"
    /\ ret' = [ ret EXCEPT
                  !.joined = PyConcat(args.initialAB, args.initialA, ret.crcA,
                                      Len(args.A), args.initialB, ret.crcB,
                                      Len(args.B)) ]
    /\ pc' = "direct"
    /\ UNCHANGED << args, thr >>

\* compute(A || B, initialAB)
CallDirect ==
    /\ pc = "direct"
    /\ ret' = [ ret EXCEPT !.direct = compute(args.A \o args.B, args.initialAB) ]
    /\ pc' = "chained"
    /\ UNCHANGED << args, thr >>

\* compute(B, compute(A, initialAB))
CallChained ==
    /\ pc = "chained"
    /\ ret' = [ ret EXCEPT
                  !.chained = compute(args.B, compute(args.A, args.initialAB)) ]
    /\ pc' = "end"
    /\ UNCHANGED << args, thr >>

NextConcat == CallCrcA \/ CallCrcB \/ CallConcat \/ CallDirect \/ CallChained

SpecConcat == InitConcat /\ [][NextConcat]_vars

\* C2: with chunk A seeded with the stream's own initial state X and chunk B
\* with any Y, concat returns compute(A || B, X).
C2_CombineCorrect ==
    (pc \in {"chained", "end"} /\ args.initialA = args.initialAB)
        => (ret.joined.status = "ok" /\ ret.joined.value = ret.direct)

\* Both chunks non-empty, Y differs from X, the correction term skipped.
C2_Witness ==
    /\ pc = "end" /\ args.initialA = args.initialAB
    /\ args.initialB # args.initialAB
    /\ Len(args.A) >= 64 /\ Len(args.B) > 0
    /\ ret.joined.value = ret.direct

\* C3: with chunk A seeded with s2 and the stream starting from s1 # s2,
\* concat returns compute(B, compute(A, s1)), which is compute(A || B, s1).
C3_CombineDifferingInitial ==
    (pc = "end" /\ args.initialA # args.initialAB)
        => (ret.joined.value = ret.chained /\ ret.chained = ret.direct)

C3_Witness ==
    /\ pc = "end" /\ args.initialA # args.initialAB
    /\ Len(args.A) > 32 /\ Len(args.B) > 0
    /\ ret.joined.value = ret.chained

(***************************************************************************)
(* SpecAssoc: three chunks checksummed independently from one state s and  *)
(* merged in both groupings.                                               *)
(***************************************************************************)
LastChunkLengths == { n \in ChunkLengths : n % 32 = 1 \/ n = 0 \/ n = MaxChunk }

InitAssoc ==
    /\ pc = "crcs"
    /\ \E na \in ChunkLengths, nb \in ChunkLengths, nc \in LastChunkLengths :
         \E s \in { Zero64, << 239, 205, 171, 137, 103, 69, 35, 1 >> } :
           args = [ A |-> Buf(na, << 0, 7, 3 >>), B |-> Buf(nb, << 5, 88, 251 >>),
                    C |-> Buf(nc, << 3, 2, 77 >>), s |-> s ]
    /\ ret = [ crcA |-> None, crcB |-> None, crcC |-> None, ab |-> None,
               bc |-> None, left |-> None, right |-> None, full |-> None ]
    /\ thr = << >>

\* compute(A, s), compute(B, s), compute(C, s)
CallCrcs ==
    /\ pc = "crcs"
    /\ ret' = [ ret EXCEPT !.crcA = compute(args.A, args.s),
                           !.crcB = compute(args.B, args.s),
                           !.crcC = compute(args.C, args.s) ]
    /\ pc' = "ab"
    /\ UNCHANGED << args, thr >>

\* (A, B) merged
CallConcatAB ==
    /\ pc = "ab"
    /\ ret' = [ ret EXCEPT
                  !.ab = PyConcat(args.s, args.s, ret.crcA, Len(args.A),
                                  args.s, ret.crcB, Len(args.B)).value ]
    /\ pc' = "left"
    /\ UNCHANGED << args, thr >>

\* ((A, B), C) merged: the merged chunk has length len(A) + len(B)
CallConcatLeft ==
    /\ pc = "left"
    /\ ret' = [ ret EXCEPT
                  !.left = PyConcat(args.s, args.s, ret.ab,
                                    Len(args.A) + Len(args.B),
                                    args.s, ret.crcC, Len(args.C)).value ]
    /\ pc' = "bc"
    /\ UNCHANGED << args, thr >>

\* (B, C) merged
CallConcatBC ==
    /\ pc = "bc"
    /\ ret' = [ ret EXCEPT
                  !.bc = PyConcat(args.s, args.s, ret.crcB, Len(args.B),
                                  args.s, ret.crcC, Len(args.C)).value ]
    /\ pc' = "right"
    /\ UNCHANGED << args, thr >>

\* (A, (B, C)) merged: the merged chunk has length len(B) + len(C)
CallConcatRight ==
    /\ pc = "right"
    /\ ret' = [ ret EXCEPT
                  !.right = PyConcat(args.s, args.s, ret.crcA, Len(args.A),
                                     args.s, ret.bc,
                                     Len(args.B) + Len(args.C)).value ]
    /\ pc' = "full"
    /\ UNCHANGED << args, thr >>

\* compute(A || B || C, s)
CallFull ==
    /\ pc = "full"
    /\ ret' = [ ret EXCEPT !.full = compute(args.A \o args.B \o args.C, args.s) ]
    /\ pc' = "end"
    /\ UNCHANGED << args, thr >>

NextAssoc ==
    \/ CallCrcs \/ CallConcatAB \/ CallConcatLeft
    \/ CallConcatBC \/ CallConcatRight \/ CallFull

SpecAssoc == InitAssoc /\ [][NextAssoc]_vars

\* C7: both groupings ((A,B),C) and (A,(B,C)) return compute(A || B || C, s).
C7_CombineAssociative ==
    pc = "end" => (ret.left = ret.full /\ ret.right = ret.full)

C7_Witness ==
    /\ pc = "end" /\ ret.left = ret.full /\ ret.right = ret.full
    /\ Len(args.A) > 0 /\ Len(args.B) >= 64 /\ Len(args.C) > 0
    /\ args.s # Zero64

(***************************************************************************)
(* SpecArgs: a caller passes arbitrary Python integers as the two sizes.   *)
(***************************************************************************)
\* The sizes passed: from -MaxNegative to MaxSize.
MaxNegative == 2

MaxSize == 2

InitArgs ==
    /\ pc = "raw"
    /\ \E na \in (-MaxNegative)..MaxSize, nb \in (-MaxNegative)..MaxSize :
         \E sA \in { Zero64, m_uComplement } :
           \E fA \in { Zero64, << 239, 205, 171, 137, 103, 69, 35, 1 >> } :
             \E fB \in { m_uComplement } :
               args = [ sizeA |-> na, sizeB |-> nb, initialA |-> sA,
                        finalA |-> fA, finalB |-> fB ]
    /\ ret = [ raw |-> None ]
    /\ thr = << >>

\* concat(0, initialA, finalA, sizeA, 0, finalB, sizeB)
CallConcatRaw ==
    /\ pc = "raw"
    /\ ret' = [ ret EXCEPT
                  !.raw = PyConcat(Zero64, args.initialA, args.finalA,
                                   args.sizeA, Zero64, args.finalB,
                                   args.sizeB) ]
    /\ pc' = "end"
    /\ UNCHANGED << args, thr >>

NextArgs == CallConcatRaw

SpecArgs == InitArgs /\ [][NextArgs]_vars

\* C6: a call of concat with a negative lengthA or lengthB fails with
\* InvalidArgument and returns no CRC value.
C6_NegativeLengthRejected ==
    (pc = "end" /\ (args.sizeA < 0 \/ args.sizeB < 0))
        => ret.raw.status = "InvalidArgument"

(***************************************************************************)
(* SpecStep: calls of compute and concat run concurrently, one per thread, *)
(* a step of one call at a time.  Every variable the two functions assign  *)
(* is an automatic variable of the call; m_u1, m_u32, m_uX2N and           *)
(* m_uComplement are only read.                                            *)
(***************************************************************************)
Threads == { 1, 2 }

\* The next step of a call in progress.
CallStep(l) ==
    IF l.pc \in { "enter", "loop", "fold", "tail" } THEN ComputeStep(l)
    ELSE ConcatStep(l)

\* A step of thread t with uCrc0..uCrc3 in static storage: the step's lane
\* accumulators are those of every call of compute in progress.
StepThread_StaticLanes(th, t) ==
    LET l == CallStep(th[t])
    IN  [ u \in DOMAIN th |->
            IF u = t THEN l
            ELSE IF th[t].pc \in { "enter", "loop" }
                    /\ th[u].pc \in { "enter", "loop", "fold" }
                 THEN [ th[u] EXCEPT !.uCrcN = l.uCrcN ]
                 ELSE th[u] ]

\* A step of thread t: it assigns the locals of t's call and nothing else.
StepThread(th, t) == [ th EXCEPT ![t] = CallStep(th[t]) ]

\* A call run alone to its return.
CallAlone(l) ==
    IF l.pc = "enter" THEN ComputeRun(l, Len(l.src) + 3)
    ELSE ConcatStep(ConcatStep(ConcatStep(ConcatStep(ConcatStep(l)))))

\* Lengths of 2^31 bytes and more: 2^31 + 64 and 2^32 + 100.
HugeLengths ==
    { << 64, 0, 0, 128, 0, 0, 0, 0 >>, << 100, 0, 0, 0, 1, 0, 0, 0 >> }

\* The leading bytes written down of a buffer of 2^31 bytes and more.
HugeHead == 128

\* The calls of the first thread: compute over every length.
CallsOne ==
    { ComputeCall(Buf(n, << 5, 88, 251 >>), U64(n), Zero64) : n \in Lengths }
    \cup { ComputeCall(Buf(HugeHead, << 5, 88, 251 >>), n, Zero64) :
             n \in HugeLengths }

\* The calls of the second thread: compute on the fast path and on the byte
\* loop alone, and concat.
CallsTwo ==
    { ComputeCall(Buf(n, << 0, 7, 3 >>), U64(n), m_uComplement) :
        n \in { 3, 2 * 32 + 1, MaxLen } }
    \cup { ConcatCall(Zero64, m_uComplement, U64(MaxLen), U64(3),
                      Zero64, U64(MaxChunk), U64(2 * 32 + 1)) }

InitStep ==
    /\ pc = "threads"
    /\ \E c1 \in CallsOne, c2 \in CallsTwo :
         /\ thr = << c1, c2 >>
         /\ args = << [ call |-> c1, alone |-> CallAlone(c1).result ],
                      [ call |-> c2, alone |-> CallAlone(c2).result ] >>
    /\ ret = << None, None >>

\* What a step of thread t leaves: the call's return value once it is done.
Stepped(t) ==
    /\ thr' = StepThread(thr, t)
    /\ ret' = [ ret EXCEPT ![t] = IF thr'[t].pc = "done"
                                  THEN thr'[t].result ELSE None ]
    /\ UNCHANGED << pc, args >>

\* Lines 18-35 of compute.
ThreadEnter(t) == thr[t].pc = "enter" /\ Stepped(t)

\* Lines 37-108 of compute: one iteration of the unrolled loop, or its exit.
ThreadLoop(t) == thr[t].pc = "loop" /\ Stepped(t)

\* Lines 110-147 of compute.
ThreadFold(t) == thr[t].pc = "fold" /\ Stepped(t)

\* Lines 150-155 of compute: one iteration of the byte loop, or the return.
ThreadTail(t) == thr[t].pc = "tail" /\ Stepped(t)

\* One statement of concat.
ThreadConcat(t) ==
    thr[t].pc \in { "c165", "c167", "c172", "c173", "c174" } /\ Stepped(t)

NextStep ==
    \E t \in Threads :
        \/ ThreadEnter(t)
        \/ ThreadLoop(t)
        \/ ThreadFold(t)
        \/ ThreadTail(t)
        \/ ThreadConcat(t)

SpecStep == InitStep /\ [][NextStep]_vars

IsCompute(t) == "src" \in DOMAIN thr[t]

\* C8: under every interleaving each call returns the value it returns when
\* run alone, and its input buffer is as it was passed.
C8_ConcurrentCallsIndependent ==
    \A t \in Threads :
        /\ thr[t].pc = "done" => ret[t] = args[t].alone
        /\ IsCompute(t) => thr[t].src = args[t].call.src

\* Both calls are computes on the fast path; the second finished after the
\* first had started its unrolled loop and before the first finished.
C8_Witness ==
    /\ IsCompute(1) /\ IsCompute(2)
    /\ thr[1].fast /\ thr[1].pc = "loop" /\ thr[1].pData > 0
    /\ thr[2].fast /\ thr[2].pc = "done" /\ ret[2] = args[2].alone

\* The number of bytes the reads of a call cover.
Consumed(reads) ==
    8 * Cardinality({ i \in DOMAIN reads : reads[i][2] = 8 })
      + Cardinality({ i \in DOMAIN reads : reads[i][2] = 1 })

\* C9: for a length n below 2^31, the fast path is entered exactly when
\* n >= 64; every read lies within the buffer; the reads cover the bytes
\* 0..n-1 once each in increasing order; the fast path consumes
\* n - (n mod 32) bytes in 8-byte words and the byte loop the rest.
C9_ReadsInBoundsAndCover ==
    \A t \in Threads :
        (IsCompute(t) /\ FitsInt(thr[t].length)) =>
            LET l == thr[t]
                n == Nat64(l.length)
                words == { i \in DOMAIN l.reads : l.reads[i][2] = 8 }
                bytes == { i \in DOMAIN l.reads : l.reads[i][2] = 1 }
            IN  /\ l.pc # "enter" => (l.fast <=> n >= 64)
                /\ \A i \in DOMAIN l.reads :
                       /\ 0 <= l.reads[i][1]
                       /\ l.reads[i][1] + l.reads[i][2] <= n
                       /\ l.reads[i][1] =
                              IF i = 1 THEN 0
                              ELSE l.reads[i - 1][1] + l.reads[i - 1][2]
                /\ \A i \in words, j \in bytes : i < j
                /\ l.pc \in { "tail", "done" } =>
                       8 * Cardinality(words) = IF n >= 64 THEN n - (n % 32) ELSE 0
                /\ l.pc = "done" =>
                       /\ Cardinality(bytes) = IF n >= 64 THEN n % 32 ELSE n
                       /\ Consumed(l.reads) = n

\* A call over 97 bytes returned: 96 bytes in words, one in the byte loop.
C9_Witness ==
    /\ IsCompute(1) /\ thr[1].pc = "done" /\ thr[1].length = U64(97)
    /\ thr[1].fast /\ Consumed(thr[1].reads) = 97

\* C10: for every length n < 2^63, the int offsets are the exact
\* mathematical ones: pLast is uStop - 32, the unrolled loop leaves pData at
\* uStop - 32 (n / 32 - 1 iterations), and the call consumes all n bytes.
C10_OffsetsExact ==
    \A t \in Threads :
        IsCompute(t) =>
            LET l == thr[t]
            IN  /\ (l.fast /\ l.pc \in { "loop", "fold" }) =>
                       (l.pLast >= 0 /\ U64(l.pLast) = Sub64(l.uStop, U64(32)))
                /\ l.pc = "fold" => U64(l.pData) = Sub64(l.uStop, U64(32))
                /\ l.pc = "done" => U64(Consumed(l.reads)) = l.length

====
